---- MODULE Spec2Model ----
(***************************************************************************)
(* Banking ledger: the account-transaction core (crud.py) driven by the    *)
(* HTTP front-end (main.py) and the tool-invocation front-end              *)
(* (mcp_server.py).  Each front-end is a process that serves one request   *)
(* at a time on its own database session; the two processes share the      *)
(* store.  Every action is one database round trip of a handler together   *)
(* with the session-local code that precedes it.                           *)
(*                                                                         *)
(* Money is modelled in whole units (the code uses binary floating point). *)
(***************************************************************************)
EXTENDS Integers, Sequences, FiniteSets, TLC

VARIABLES
    accounts,       \* table accounts: sequence of rows, row i has id i
    transactions,   \* table transactions: sequence of rows, row i has id i
    now,            \* the clock read by the timestamp default
    session,        \* per front-end process: the request being served
    response,       \* the response sent by the last step, "none" if it sent none
    succeeded       \* per account id: what the successful responses add up to

vars == <<accounts, transactions, now, session, response, succeeded>>

(***************************************************************************)
(* Bounds of the model.                                                    *)
(***************************************************************************)
MaxAccounts == 2
MaxTransactions == 3
MaxNameLen == 2
MaxAmount == 2

(***************************************************************************)
(* Program constants.                                                      *)
(***************************************************************************)
OwnerNameMinLength == 1
OwnerNameMaxLength == 255
LimitMin == 1
LimitMax == 100

Procs == {"http", "mcp"}

\* An optional JSON number: <<>> is an absent value (None), <<v>> is v.
None == <<>>

Some(v) == <<v>>

Value(amount) == amount[1]

DEPOSIT == "deposit"
WITHDRAWAL == "withdrawal"

(***************************************************************************)
(* Request inputs.                                                         *)
(***************************************************************************)
Chars == {" ", "a"}

RawNames == UNION {[1..n -> Chars] : n \in 0..MaxNameLen}

Balances == {-1, 0, 1}

Amounts == {None} \cup {Some(v) : v \in -1..MaxAmount}

AccountIds == 1..(MaxAccounts + 1)

Limits == {0, 1, LimitMax + 1}

Offsets == {-1, 0, 1}

\* The get_transactions tool has no offset argument.
PageOffsets(p) == IF p = "mcp" THEN {0} ELSE Offsets

(***************************************************************************)
(* str.strip(): drop leading and trailing whitespace.                      *)
(***************************************************************************)
RECURSIVE LStrip(_)
LStrip(s) ==
    IF s # <<>> /\ Head(s) = " " THEN LStrip(Tail(s)) ELSE s

RECURSIVE RStrip(_)
RStrip(s) ==
    IF s # <<>> /\ s[Len(s)] = " " THEN RStrip(SubSeq(s, 1, Len(s) - 1)) ELSE s

Strip(s) == RStrip(LStrip(s))

(***************************************************************************)
(* Front-end validation.                                                   *)
(***************************************************************************)
\* schemas.AccountCreate: the Field constraints apply to the raw string,
\* then the validator strips it and rejects an empty result.
HttpCreateValid(owner_name, initial_balance) ==
    /\ Len(owner_name) >= OwnerNameMinLength
    /\ Len(owner_name) <= OwnerNameMaxLength
    /\ Strip(owner_name) # <<>>
    /\ initial_balance >= 0

McpCreateValidNoBalance(owner_name, initial_balance) ==
    Strip(owner_name) # <<>>

\* mcp_server.call_tool, create_account branch.
McpCreateValid(owner_name, initial_balance) ==
    /\ Strip(owner_name) # <<>>
    /\ ~(initial_balance < 0)

CreateValid(p, owner_name, initial_balance) ==
    IF p = "http" THEN HttpCreateValid(owner_name, initial_balance)
                  ELSE McpCreateValid(owner_name, initial_balance)

\* schemas.DepositRequest / WithdrawRequest: amount is required and gt=0.
HttpAmountValid(amount) == amount # None /\ Value(amount) > 0

McpAmountValidZero(amount) == ~(amount = None \/ Value(amount) < 0)

\* mcp_server.call_tool: "if amount is None or amount <= 0: return error".
McpAmountValid(amount) == ~(amount = None \/ Value(amount) <= 0)

AmountValid(p, amount) ==
    IF p = "http" THEN HttpAmountValid(amount) ELSE McpAmountValid(amount)

\* main.get_transactions: Query(ge=1, le=100) and Query(ge=0).
HttpPageValid(limit, offset) ==
    limit >= LimitMin /\ limit <= LimitMax /\ offset >= 0

\* mcp_server.call_tool, get_transactions branch: no check at all.
McpPageValid(limit, offset) == TRUE

PageValid(p, limit, offset) ==
    IF p = "http" THEN HttpPageValid(limit, offset) ELSE McpPageValid(limit, offset)

(***************************************************************************)
(* Queries of crud.py.                                                     *)
(***************************************************************************)
NoAccount == [id |-> 0, owner_name |-> <<>>, balance |-> 0]

get_account_by_id_unfiltered(account_id) ==
    IF accounts # <<>> THEN accounts[1] ELSE NoAccount

\* .filter(Account.id == account_id).first()
get_account_by_id(account_id) ==
    IF account_id \in 1..Len(accounts) THEN accounts[account_id] ELSE NoAccount

get_account_by_owner_name_first_row(owner_name) ==
    IF accounts # <<>> /\ accounts[1].owner_name = owner_name
    THEN accounts[1] ELSE NoAccount

\* .filter(Account.owner_name == owner_name).first(): one of the matching
\* rows, the lowest id in the model.
get_account_by_owner_name(owner_name) ==
    LET ids == {i \in 1..Len(accounts) : accounts[i].owner_name = owner_name}
    IN  IF ids = {} THEN NoAccount
        ELSE accounts[CHOOSE i \in ids : \A j \in ids : i <= j]

SelectTransactions(account_id) ==
    SelectSeq(transactions, LAMBDA t : t.account_id = account_id)

get_transaction_count_by_account(account_id) == Len(SelectTransactions(account_id))

Min(a, b) == IF a < b THEN a ELSE b

\* The orders ORDER BY timestamp DESC allows: rows with equal timestamps
\* come in any order.
OrderedByTimestampDesc(rows) ==
    LET n == Len(rows)
    IN  {[i \in 1..n |-> rows[f[i]]] :
            f \in {g \in [1..n -> 1..n] :
                      /\ \A i, j \in 1..n : i # j => g[i] # g[j]
                      /\ \A i, j \in 1..n :
                             i < j => rows[g[i]].timestamp >= rows[g[j]].timestamp}}

get_transactions_by_account_no_offset(account_id, limit, offset) ==
    {SubSeq(q, 1, Min(Len(q), limit)) :
        q \in OrderedByTimestampDesc(SelectTransactions(account_id))}

\* .order_by(timestamp.desc()).offset(offset).limit(limit).all()
get_transactions_by_account(account_id, limit, offset) ==
    {SubSeq(q, offset + 1, Min(Len(q), offset + limit)) :
        q \in OrderedByTimestampDesc(SelectTransactions(account_id))}

(***************************************************************************)
(* Decisions and arithmetic of the core.                                   *)
(***************************************************************************)
InsufficientFundsStrict(account, amount) == account.balance <= amount

\* main.py 189, mcp_server.py 200, crud.py 70: "account.balance < amount".
InsufficientFunds(account, amount) == account.balance < amount

DepositBalanceFresh(account, amount) == accounts[account.id].balance + amount

\* crud.deposit: new_balance = account.balance + amount, on the loaded row.
DepositBalance(account, amount) == account.balance + amount

WithdrawBalanceAdds(account, amount) == account.balance + amount

\* crud.withdraw: new_balance = account.balance - amount, on the loaded row.
WithdrawBalance(account, amount) == account.balance - amount

RecordsOpeningDepositAlways(initial_balance) == initial_balance >= 0

RecordsOpeningDepositNever(initial_balance) == FALSE

\* crud.create_account: "if initial_balance > 0: create_transaction(...)".
RecordsOpeningDeposit(initial_balance) == initial_balance > 0

(***************************************************************************)
(* Sessions and responses.                                                 *)
(***************************************************************************)
Idle ==
    [pc |-> "idle", owner_name |-> <<>>, initial_balance |-> 0,
     account |-> NoAccount, amount |-> 0, limit |-> 0, offset |-> 0,
     page |-> <<>>, writes |-> 0]

\* What the caller is told: the success, or the error sentinel (the status
\* code of main.py, the error text of mcp_server.py).
Response(p, result) == result

\* The handler of p returns: its session is closed and the response sent.
Return(p, r) ==
    /\ session' = [session EXCEPT ![p] = Idle]
    /\ response' = r

\* Rows a request that got past its lookup will still add.
PendingAccounts ==
    Cardinality({p \in Procs : session[p].pc = "create_insert"})

PendingTransactions ==
    Cardinality({p \in Procs :
        \/ session[p].pc \in {"create_transaction", "deposit_write",
                              "deposit_transaction", "withdraw_write",
                              "withdraw_transaction"}
        \/ /\ session[p].pc = "create_insert"
           /\ RecordsOpeningDeposit(session[p].initial_balance)})

AccountRoom == Len(accounts) + PendingAccounts < MaxAccounts

TransactionRoom == Len(transactions) + PendingTransactions < MaxTransactions

Init ==
    /\ accounts = <<>>
    /\ transactions = <<>>
    /\ now = 0
    /\ session = [p \in Procs |-> Idle]
    /\ response = "none"
    /\ succeeded = <<>>

create_transaction_overwrites(account_id, transaction_type, amount) ==
    /\ now' = now + 1
    /\ transactions' =
           <<[id |-> 1, account_id |-> account_id, type |-> transaction_type,
              amount |-> amount, timestamp |-> now + 1]>>

(***************************************************************************)
(* crud.create_transaction: insert one row; the timestamp default reads    *)
(* the clock, which may or may not have advanced since the last insert     *)
(* (it has advanced since start-up when the first row is inserted).        *)
(***************************************************************************)
create_transaction(account_id, transaction_type, amount) ==
    \E t \in (IF transactions = <<>> THEN {now + 1} ELSE {now, now + 1}) :
        /\ now' = t
        /\ transactions' = Append(transactions,
               [id |-> Len(transactions) + 1, account_id |-> account_id,
                type |-> transaction_type, amount |-> amount, timestamp |-> t])

\* crud.update_account_balance: write the row's balance and commit.
update_account_balance(account, new_balance) ==
    accounts' = [accounts EXCEPT ![account.id].balance = new_balance]

(***************************************************************************)
(* create_account handlers.                                                *)
(***************************************************************************)
\* How the handler answers before it writes: an error, or "proceed".
CreateAccountOutcome(p, owner_name, initial_balance) ==
    IF ~CreateValid(p, owner_name, initial_balance) THEN "InvalidInput"
    ELSE IF get_account_by_owner_name(Strip(owner_name)).id # 0
         THEN "DuplicateOwner"
    ELSE "proceed"

CreateAccountLookup(p, owner_name, initial_balance) ==
    /\ session[p].pc = "idle"
    /\ IF CreateAccountOutcome(p, owner_name, initial_balance) # "proceed"
       THEN Return(p, Response(p,
                CreateAccountOutcome(p, owner_name, initial_balance)))
       ELSE /\ AccountRoom
            /\ RecordsOpeningDeposit(initial_balance) => TransactionRoom
            /\ session' = [session EXCEPT ![p] =
                   [Idle EXCEPT !.pc = "create_insert",
                        !.owner_name = Strip(owner_name),
                        !.initial_balance = initial_balance]]
            /\ response' = "none"
    /\ UNCHANGED <<accounts, transactions, now, succeeded>>

\* crud.create_account, lines 17-22: insert the row, commit, refresh.
CreateAccountInsert(p) ==
    /\ session[p].pc = "create_insert"
    /\ LET row == [id |-> Len(accounts) + 1,
                   owner_name |-> session[p].owner_name,
                   balance |-> session[p].initial_balance]
       IN  /\ accounts' = Append(accounts, row)
           /\ succeeded' = Append(succeeded,
                  [initial |-> session[p].initial_balance,
                   deposits |-> 0, withdrawals |-> 0])
           /\ IF RecordsOpeningDeposit(session[p].initial_balance)
              THEN /\ session' = [session EXCEPT ![p].pc = "create_transaction",
                                      ![p].account = row, ![p].writes = 1]
                   /\ response' = "none"
              ELSE Return(p, Response(p, "OK"))
    /\ UNCHANGED <<transactions, now>>

\* crud.create_account, line 23, and the handler's return.
CreateAccountTransaction(p) ==
    /\ session[p].pc = "create_transaction"
    /\ create_transaction(session[p].account.id, DEPOSIT, session[p].initial_balance)
    /\ Return(p, Response(p, "OK"))
    /\ UNCHANGED <<accounts, succeeded>>

(***************************************************************************)
(* deposit handlers.                                                       *)
(***************************************************************************)
DepositOutcome(p, account_id, amount) ==
    IF ~AmountValid(p, amount) THEN "InvalidAmount"
    ELSE IF get_account_by_id(account_id).id = 0 THEN "NotFound"
    ELSE "proceed"

DepositLookup(p, account_id, amount) ==
    /\ session[p].pc = "idle"
    /\ IF DepositOutcome(p, account_id, amount) # "proceed"
       THEN Return(p, Response(p, DepositOutcome(p, account_id, amount)))
       ELSE /\ TransactionRoom
            /\ session' = [session EXCEPT ![p] =
                   [Idle EXCEPT !.pc = "deposit_write",
                        !.account = get_account_by_id(account_id),
                        !.amount = Value(amount)]]
            /\ response' = "none"
    /\ UNCHANGED <<accounts, transactions, now, succeeded>>

DepositWriteRecordsFirst(p) ==
    /\ session[p].pc = "deposit_write"
    /\ create_transaction(session[p].account.id, DEPOSIT, session[p].amount)
    /\ session' = [session EXCEPT ![p].pc = "deposit_transaction"]
    /\ response' = "none"
    /\ UNCHANGED <<accounts, succeeded>>

\* crud.deposit, lines 63-64: the new balance is computed from the balance
\* the session loaded, then written.
DepositWrite(p) ==
    /\ session[p].pc = "deposit_write"
    /\ LET new_balance == DepositBalance(session[p].account, session[p].amount)
       IN  /\ update_account_balance(session[p].account, new_balance)
           /\ session' = [session EXCEPT ![p].pc = "deposit_transaction",
                              ![p].account.balance = new_balance,
                              ![p].writes = session[p].writes + 1]
    /\ response' = "none"
    /\ UNCHANGED <<transactions, now, succeeded>>

\* crud.deposit, line 65, and the handler's success response.
DepositTransaction(p) ==
    /\ session[p].pc = "deposit_transaction"
    /\ create_transaction(session[p].account.id, DEPOSIT, session[p].amount)
    /\ succeeded' = [succeeded EXCEPT ![session[p].account.id].deposits =
                         @ + session[p].amount]
    /\ Return(p, Response(p, "OK"))
    /\ UNCHANGED accounts

(***************************************************************************)
(* withdraw handlers.                                                      *)
(***************************************************************************)
\* Validation, lookup and the handler's own balance check
\* (main.py 189, mcp_server.py 200).
WithdrawOutcome(p, account_id, amount) ==
    IF ~AmountValid(p, amount) THEN "InvalidAmount"
    ELSE IF get_account_by_id(account_id).id = 0 THEN "NotFound"
    ELSE IF InsufficientFunds(get_account_by_id(account_id), Value(amount))
         THEN "InsufficientFunds"
    ELSE "proceed"

WithdrawLookup(p, account_id, amount) ==
    /\ session[p].pc = "idle"
    /\ IF WithdrawOutcome(p, account_id, amount) # "proceed"
       THEN Return(p, Response(p, WithdrawOutcome(p, account_id, amount)))
       ELSE /\ TransactionRoom
            /\ session' = [session EXCEPT ![p] =
                   [Idle EXCEPT !.pc = "withdraw_write",
                        !.account = get_account_by_id(account_id),
                        !.amount = Value(amount)]]
            /\ response' = "none"
    /\ UNCHANGED <<accounts, transactions, now, succeeded>>

\* crud.withdraw, lines 70-74: the check is repeated on the balance the
\* session loaded; a None result makes the handler fail on account.balance.
WithdrawWrite(p) ==
    /\ session[p].pc = "withdraw_write"
    /\ IF InsufficientFunds(session[p].account, session[p].amount)
       THEN /\ Return(p, Response(p, "InternalError"))
            /\ UNCHANGED accounts
       ELSE LET new_balance == WithdrawBalance(session[p].account, session[p].amount)
            IN  /\ update_account_balance(session[p].account, new_balance)
                /\ session' = [session EXCEPT ![p].pc = "withdraw_transaction",
                                   ![p].account.balance = new_balance,
                                   ![p].writes = session[p].writes + 1]
                /\ response' = "none"
    /\ UNCHANGED <<transactions, now, succeeded>>

\* crud.withdraw, line 75, and the handler's success response.
WithdrawTransaction(p) ==
    /\ session[p].pc = "withdraw_transaction"
    /\ create_transaction(session[p].account.id, WITHDRAWAL, session[p].amount)
    /\ succeeded' = [succeeded EXCEPT ![session[p].account.id].withdrawals =
                         @ + session[p].amount]
    /\ Return(p, Response(p, "OK"))
    /\ UNCHANGED accounts

(***************************************************************************)
(* get_balance and get_transactions handlers.                              *)
(***************************************************************************)
GetBalanceOutcome(p, account_id) ==
    IF get_account_by_id(account_id).id = 0 THEN "NotFound" ELSE "OK"

GetBalance(p, account_id) ==
    /\ session[p].pc = "idle"
    /\ Return(p, Response(p, GetBalanceOutcome(p, account_id)))
    /\ UNCHANGED <<accounts, transactions, now, succeeded>>

GetTransactionsOutcome(p, account_id, limit, offset) ==
    IF ~PageValid(p, limit, offset) THEN "InvalidInput"
    ELSE IF get_account_by_id(account_id).id = 0 THEN "NotFound"
    ELSE "proceed"

GetTransactionsLookup(p, account_id, limit, offset) ==
    /\ session[p].pc = "idle"
    /\ IF GetTransactionsOutcome(p, account_id, limit, offset) # "proceed"
       THEN Return(p, Response(p,
                GetTransactionsOutcome(p, account_id, limit, offset)))
       ELSE /\ session' = [session EXCEPT ![p] =
                   [Idle EXCEPT !.pc = "transactions_list",
                        !.account = [NoAccount EXCEPT !.id = account_id],
                        !.limit = limit,
                        !.offset = offset]]
            /\ response' = "none"
    /\ UNCHANGED <<accounts, transactions, now, succeeded>>

\* The first query: the page of rows the response will carry.
GetTransactionsList(p) ==
    /\ session[p].pc = "transactions_list"
    /\ \E page \in get_transactions_by_account(session[p].account.id,
                                               session[p].limit, session[p].offset) :
           session' = [session EXCEPT ![p].pc = "transactions_count",
                                      ![p].page = page]
    /\ response' = "none"
    /\ UNCHANGED <<accounts, transactions, now, succeeded>>

GetTransactionsCount(p) ==
    /\ session[p].pc = "transactions_count"
    /\ Return(p, Response(p, "OK"))
    /\ UNCHANGED <<accounts, transactions, now, succeeded>>

\* mcp_server.call_tool, list_accounts branch: one query over all accounts.
ListAccounts(p) ==
    /\ p = "mcp"
    /\ session[p].pc = "idle"
    /\ Return(p, Response(p, "OK"))
    /\ UNCHANGED <<accounts, transactions, now, succeeded>>

(***************************************************************************)
(* The two front-ends run side by side.                                    *)
(***************************************************************************)
\* The handlers that write: create_account, deposit, withdraw.
MutatingStep(p) ==
    \/ \E n \in RawNames, b \in Balances : CreateAccountLookup(p, n, b)
    \/ CreateAccountInsert(p)
    \/ CreateAccountTransaction(p)
    \/ \E i \in AccountIds, a \in Amounts : DepositLookup(p, i, a)
    \/ DepositWrite(p)
    \/ DepositTransaction(p)
    \/ \E i \in AccountIds, a \in Amounts : WithdrawLookup(p, i, a)
    \/ WithdrawWrite(p)
    \/ WithdrawTransaction(p)

\* The handlers that only read: get_balance, get_transactions,
\* list_accounts.
QueryStep(p) ==
    \/ \E i \in AccountIds : GetBalance(p, i)
    \/ \E i \in AccountIds, l \in Limits, o \in PageOffsets(p) :
           GetTransactionsLookup(p, i, l, o)
    \/ GetTransactionsList(p)
    \/ GetTransactionsCount(p)
    \/ ListAccounts(p)

Step(p) == MutatingStep(p) \/ QueryStep(p)

Next == \E p \in Procs : Step(p)

Spec == Init /\ [][Next]_vars

(***************************************************************************)
(* Requests run one at a time: a request starts only when no other is in   *)
(* progress.                                                               *)
(***************************************************************************)
Quiescent == \A p \in Procs : session[p].pc = "idle"

NextSeq ==
    \E p \in Procs :
        /\ \A q \in Procs \ {p} : session[q].pc = "idle"
        /\ Step(p)

SpecSeq == Init /\ [][NextSeq]_vars

(***************************************************************************)
(* Any interleaving of create_account, deposit and withdraw requests.      *)
(***************************************************************************)
NextWrite == \E p \in Procs : MutatingStep(p)

SpecWrite == Init /\ [][NextWrite]_vars

(***************************************************************************)
(* Vocabulary of the properties.                                           *)
(***************************************************************************)
AccountRows == 1..Len(accounts)

RECURSIVE SumAmounts(_)
SumAmounts(rows) ==
    IF rows = <<>> THEN 0 ELSE Head(rows).amount + SumAmounts(Tail(rows))

\* The sum of the amounts recorded for an account under one type.
LedgerTotal(account_id, transaction_type) ==
    SumAmounts(SelectSeq(transactions,
        LAMBDA t : t.account_id = account_id /\ t.type = transaction_type))

(***************************************************************************)
(* C1.  When requests run one at a time, after any sequence of successful  *)
(* deposits and withdrawals an account's stored balance is its initial     *)
(* balance plus the amounts of the successful deposits minus the amounts   *)
(* of the successful withdrawals; rejected requests contribute nothing.    *)
(***************************************************************************)
C1_BalanceIsSumOfSuccessfulRequests ==
    Quiescent =>
        \A i \in AccountRows :
            accounts[i].balance =
                succeeded[i].initial + succeeded[i].deposits
                    - succeeded[i].withdrawals

\* An account that took a successful deposit and a successful withdrawal
\* and still holds money.
C1_Witness ==
    /\ Quiescent
    /\ \E i \in AccountRows :
           /\ succeeded[i].deposits > 0
           /\ succeeded[i].withdrawals > 0
           /\ accounts[i].balance > 0

(***************************************************************************)
(* C4.  As stated: at every quiescent point an account's balance is its    *)
(* initial balance plus the recorded DEPOSIT amounts minus the recorded    *)
(* WITHDRAWAL amounts, also for accounts created with a positive initial   *)
(* balance.  The code records the initial balance itself as a DEPOSIT, so  *)
(* the statement counts it twice.                                          *)
(***************************************************************************)
C4_AsStated ==
    Quiescent =>
        \A i \in AccountRows :
            accounts[i].balance =
                succeeded[i].initial + LedgerTotal(i, DEPOSIT)
                    - LedgerTotal(i, WITHDRAWAL)

(***************************************************************************)
(* C4, amended.  When requests run one at a time, at every quiescent point *)
(* an account's balance is the sum of its recorded DEPOSIT amounts minus   *)
(* the sum of its recorded WITHDRAWAL amounts, the DEPOSIT recorded at     *)
(* creation carrying the initial balance.                                  *)
(***************************************************************************)
C4_BalanceIsLedgerTotal ==
    Quiescent =>
        \A i \in AccountRows :
            accounts[i].balance =
                LedgerTotal(i, DEPOSIT) - LedgerTotal(i, WITHDRAWAL)

\* An account created with a positive initial balance that has since taken
\* a withdrawal.
C4_Witness ==
    /\ Quiescent
    /\ \E i \in AccountRows :
           /\ succeeded[i].initial > 0
           /\ LedgerTotal(i, WITHDRAWAL) > 0

(***************************************************************************)
(* C7.  In every reachable state, under any interleaving of create,        *)
(* deposit and withdraw requests, every stored balance is >= 0.            *)
(***************************************************************************)
C7_BalanceNonNegative ==
    \A i \in AccountRows : accounts[i].balance >= 0

\* Two withdrawals of the whole balance raced on one account: both are
\* recorded and the balance is 0.
C7_Witness ==
    /\ Quiescent
    /\ \E i \in AccountRows :
           /\ accounts[i].balance = 0
           /\ LedgerTotal(i, DEPOSIT) > 0
           /\ LedgerTotal(i, WITHDRAWAL) = 2 * LedgerTotal(i, DEPOSIT)

(***************************************************************************)
(* C2.  A withdraw request is rejected with InsufficientFunds exactly when *)
(* the requested amount is greater than the balance the request read (a    *)
(* withdrawal of the whole balance goes through and leaves balance 0); a   *)
(* rejected withdrawal changes no balance and adds no transaction record.  *)
(***************************************************************************)
C2_WithdrawRejectedIffAmountExceedsBalance ==
    /\ [](/\ \A p \in Procs, i \in AccountIds, a \in Amounts :
                 /\ (WithdrawOutcome(p, i, a) = "InsufficientFunds") <=>
                        /\ a # None
                        /\ i \in AccountRows
                        /\ Value(a) > accounts[i].balance
                 /\ (/\ a # None
                     /\ i \in AccountRows
                     /\ Value(a) > 0
                     /\ Value(a) <= accounts[i].balance) =>
                        WithdrawOutcome(p, i, a) = "proceed"
          /\ \A p \in Procs :
                 session[p].pc = "withdraw_write" =>
                     /\ session[p].amount > 0
                     /\ session[p].amount <= session[p].account.balance)
    /\ [][/\ response' = "InsufficientFunds" =>
                 /\ UNCHANGED <<accounts, transactions>>
                 /\ \E p \in Procs, i \in AccountIds, a \in Amounts :
                        /\ session[p].pc = "idle"
                        /\ session'[p].pc = "idle"
                        /\ WithdrawOutcome(p, i, a) = "InsufficientFunds"
          /\ \A p \in Procs :
                 (session[p].pc = "withdraw_write" /\ session'[p] # session[p]) =>
                     /\ response' = "none"
                     /\ session'[p].pc = "withdraw_transaction"
                     /\ accounts'[session[p].account.id].balance =
                            session[p].account.balance - session[p].amount
                     /\ UNCHANGED transactions
         ]_vars

\* A withdrawal of more than a positive balance has just been rejected.
C2_Witness ==
    /\ response = "InsufficientFunds"
    /\ Len(accounts) = 1
    /\ accounts[1].balance = 1
    /\ Len(transactions) = 1

(***************************************************************************)
(* C3.  As stated: when an account with owner_name N exists, a later       *)
(* create-account request with the same owner_name N fails with            *)
(* DuplicateOwner and adds no account row and no transaction row.  A       *)
(* request that also carries a negative initial balance is rejected by     *)
(* the validation that runs before the lookup, not as a duplicate.         *)
(***************************************************************************)
C3_AsStated ==
    [][\A p \in Procs, n \in RawNames, b \in Balances :
           (/\ \E i \in AccountRows : accounts[i].owner_name = n
            /\ CreateAccountLookup(p, n, b)) =>
               /\ response' = "DuplicateOwner"
               /\ UNCHANGED <<accounts, transactions>>
      ]_vars

(***************************************************************************)
(* C3, amended.  When an account with owner_name N exists, a later         *)
(* create-account request that passes the front-end's validation and whose *)
(* trimmed owner_name is N fails with DuplicateOwner; one that does not    *)
(* pass validation fails as invalid input; either way the attempt adds no  *)
(* account row and no transaction row.                                     *)
(***************************************************************************)
C3_DuplicateOwnerRejected ==
    /\ [](\A p \in Procs, n \in RawNames, b \in Balances :
              (\E i \in AccountRows : accounts[i].owner_name = Strip(n)) =>
                  CreateAccountOutcome(p, n, b) =
                      IF b >= 0 THEN "DuplicateOwner" ELSE "InvalidInput")
    /\ [][response' \in {"DuplicateOwner", "InvalidInput"} =>
              /\ UNCHANGED <<accounts, transactions>>
              /\ \E p \in Procs :
                     /\ session[p].pc = "idle"
                     /\ session'[p].pc = "idle"
                     /\ response' = "DuplicateOwner" =>
                            \E n \in RawNames, b \in Balances :
                                /\ CreateAccountOutcome(p, n, b) = "DuplicateOwner"
                                /\ \E i \in AccountRows :
                                       accounts[i].owner_name = Strip(n)
         ]_vars

\* A create request for an existing owner has just been rejected.
C3_Witness ==
    /\ response = "DuplicateOwner"
    /\ accounts # <<>>

(***************************************************************************)
(* C5.  Two concurrent deposit/withdraw requests on one account can both   *)
(* read the same balance and both write: the write stores the balance      *)
(* computed from what the request read, whatever the row holds by then,    *)
(* so a change committed in between is overwritten (lost update), and a    *)
(* state is reachable where both requests succeeded and both records       *)
(* exist but the balance reflects only one of them.                        *)
(***************************************************************************)
C5_WriteIsComputedFromLoadedBalance ==
    [][\A p \in Procs :
           LET id == session[p].account.id
           IN  /\ (session[p].pc = "deposit_write" /\ session'[p] # session[p]) =>
                      accounts'[id].balance =
                          session[p].account.balance + session[p].amount
               /\ (session[p].pc = "withdraw_write" /\ session'[p] # session[p]) =>
                      accounts'[id].balance =
                          session[p].account.balance - session[p].amount
      ]_vars

\* Both deposits on an account opened with 0 succeeded and are recorded,
\* yet the balance holds only one of them.
C5_Witness ==
    /\ Quiescent
    /\ \E i \in AccountRows :
           /\ succeeded[i].initial = 0
           /\ succeeded[i].withdrawals = 0
           /\ Len(SelectTransactions(i)) = 2
           /\ succeeded[i].deposits = LedgerTotal(i, DEPOSIT)
           /\ accounts[i].balance < LedgerTotal(i, DEPOSIT)
           /\ \E k \in 1..Len(transactions) :
                  /\ transactions[k].account_id = i
                  /\ transactions[k].amount = accounts[i].balance

(***************************************************************************)
(* C6.  In every reachable state, also when create-account requests of     *)
(* different callers interleave, no two account rows have the same         *)
(* owner_name.                                                             *)
(***************************************************************************)
C6_OwnerNamesUnique ==
    \A i, j \in AccountRows :
        i # j => accounts[i].owner_name # accounts[j].owner_name

(***************************************************************************)
(* C8.  Every stored transaction record has amount > 0: a deposit or       *)
(* withdraw request with amount <= 0 is rejected by the front-end before   *)
(* any write, and account creation records a transaction only when the     *)
(* initial balance is > 0.                                                 *)
(***************************************************************************)
C8_TransactionAmountsPositive ==
    /\ [](/\ \A k \in 1..Len(transactions) : transactions[k].amount > 0
          /\ \A p \in Procs, i \in AccountIds, a \in Amounts :
                 (a # None /\ Value(a) <= 0) =>
                     /\ DepositOutcome(p, i, a) = "InvalidAmount"
                     /\ WithdrawOutcome(p, i, a) = "InvalidAmount"
          /\ \A p \in Procs :
                 /\ session[p].pc \in {"deposit_write", "deposit_transaction",
                                       "withdraw_write", "withdraw_transaction"} =>
                        session[p].amount > 0
                 /\ session[p].pc = "create_transaction" =>
                        session[p].initial_balance > 0)
    /\ [][/\ response' = "InvalidAmount" => UNCHANGED <<accounts, transactions>>
          /\ \A p \in Procs :
                 (/\ session[p].pc \in {"create_insert", "create_transaction"}
                  /\ session'[p] # session[p]
                  /\ transactions' # transactions) =>
                     session[p].initial_balance > 0
         ]_vars

\* A non-positive amount has just been refused while the ledger is in use.
C8_Witness ==
    /\ response = "InvalidAmount"
    /\ Len(transactions) = MaxTransactions
    /\ \E k \in 1..Len(transactions) : transactions[k].type = WITHDRAWAL

(***************************************************************************)
(* C9.  Every successful mutating operation performs exactly one account   *)
(* write and at most one transaction insert: a deposit adds one DEPOSIT    *)
(* record of its amount, a withdrawal one WITHDRAWAL record of its amount, *)
(* a creation with initial balance > 0 one DEPOSIT record of the initial   *)
(* balance, a creation with initial balance 0 no record.                   *)
(***************************************************************************)
\* Account rows added or changed by the step.
AccountWrites ==
    Cardinality({i \in 1..Len(accounts') :
                    i > Len(accounts) \/ accounts'[i] # accounts[i]})

\* Transaction rows added by the step.
TransactionInserts == Len(transactions') - Len(transactions)

LastTransaction == transactions'[Len(transactions')]

C9_OneWriteAtMostOneInsert ==
    [][\A p \in Procs :
           session'[p] # session[p] =>
               LET pc == session[p].pc
                   id == session[p].account.id
               IN
               /\ Len(accounts') >= Len(accounts)
               /\ TransactionInserts \in {0, 1}
               /\ SubSeq(transactions', 1, Len(transactions)) = transactions
               /\ AccountWrites + TransactionInserts <= 1
               /\ pc = "idle" => AccountWrites = 0 /\ TransactionInserts = 0
               /\ pc = "create_insert" =>
                      /\ session[p].writes = 0
                      /\ AccountWrites = 1
                      /\ Len(accounts') = Len(accounts) + 1
                      /\ TransactionInserts = 0
                      /\ IF session[p].initial_balance > 0
                         THEN /\ session'[p].pc = "create_transaction"
                              /\ session'[p].writes = 1
                         ELSE /\ session'[p].pc = "idle"
                              /\ response' = "OK"
               /\ pc \in {"deposit_write", "withdraw_write"} =>
                      /\ session[p].writes = 0
                      /\ session'[p].writes = 1
                      /\ TransactionInserts = 0
                      /\ Len(accounts') = Len(accounts)
                      /\ \A i \in AccountRows : i # id => accounts'[i] = accounts[i]
                      /\ accounts'[id].balance = session'[p].account.balance
               /\ pc \in {"create_transaction", "deposit_transaction",
                          "withdraw_transaction"} =>
                      /\ session[p].writes = 1
                      /\ AccountWrites = 0
                      /\ TransactionInserts = 1
                      /\ LastTransaction.account_id = id
                      /\ LastTransaction.type =
                             IF pc = "withdraw_transaction" THEN WITHDRAWAL ELSE DEPOSIT
                      /\ LastTransaction.amount =
                             IF pc = "create_transaction"
                             THEN session[p].initial_balance ELSE session[p].amount
                      /\ LastTransaction.amount > 0
                      /\ session'[p].pc = "idle"
                      /\ response' = "OK"
      ]_vars

\* An account created with initial balance 0 and nothing recorded for it,
\* next to one created with a positive balance and its one DEPOSIT record.
C9_Witness ==
    /\ Quiescent
    /\ response = "OK"
    /\ Len(accounts) = 2
    /\ \E i, j \in AccountRows :
           /\ succeeded[i].initial = 0 /\ SelectTransactions(i) = <<>>
           /\ succeeded[j].initial > 0 /\ Len(SelectTransactions(j)) = 1
           /\ LedgerTotal(j, DEPOSIT) = succeeded[j].initial

(***************************************************************************)
(* C10.  As stated: for every account id that is not in the store, a       *)
(* deposit, withdraw, get_balance or get_transactions request for that id  *)
(* returns NotFound through either front-end and leaves all accounts and   *)
(* transactions unchanged.  A request that fails the front-end's           *)
(* validation is refused for that reason before the id is looked up.       *)
(***************************************************************************)
UnknownIds == AccountIds \ AccountRows

C10_AsStated ==
    [][\A p \in Procs, i \in UnknownIds :
           /\ \A a \in Amounts :
                  (DepositLookup(p, i, a) \/ WithdrawLookup(p, i, a)) =>
                      /\ response' = "NotFound"
                      /\ UNCHANGED <<accounts, transactions>>
           /\ GetBalance(p, i) =>
                  /\ response' = "NotFound"
                  /\ UNCHANGED <<accounts, transactions>>
           /\ \A l \in Limits, o \in PageOffsets(p) :
                  GetTransactionsLookup(p, i, l, o) =>
                      /\ response' = "NotFound"
                      /\ UNCHANGED <<accounts, transactions>>
      ]_vars

(***************************************************************************)
(* C10, amended.  For every account id that is not in the store, a         *)
(* deposit, withdraw, get_balance or get_transactions request for that id  *)
(* that passes the front-end's validation (amount > 0; for the HTTP        *)
(* front-end limit in 1..100 and offset >= 0) returns NotFound through     *)
(* either front-end; one that does not pass is refused as invalid; either  *)
(* way all accounts and transactions are unchanged.                        *)
(***************************************************************************)
C10_UnknownAccountNotFound ==
    /\ [](\A p \in Procs, i \in UnknownIds :
              /\ \A a \in Amounts :
                     LET expected == IF a # None /\ Value(a) > 0
                                     THEN "NotFound" ELSE "InvalidAmount"
                     IN  /\ DepositOutcome(p, i, a) = expected
                         /\ WithdrawOutcome(p, i, a) = expected
              /\ GetBalanceOutcome(p, i) = "NotFound"
              /\ \A l \in Limits, o \in PageOffsets(p) :
                     GetTransactionsOutcome(p, i, l, o) =
                         IF p = "mcp" \/ (l >= LimitMin /\ l <= LimitMax /\ o >= 0)
                         THEN "NotFound" ELSE "InvalidInput")
    /\ [][response' \in {"NotFound", "InvalidAmount", "InvalidInput"} =>
              /\ UNCHANGED <<accounts, transactions>>
              /\ \E p \in Procs : session[p].pc = "idle" /\ session'[p].pc = "idle"
         ]_vars

\* A request for an unknown id has just been answered NotFound while the
\* store holds accounts and records.
C10_Witness ==
    /\ response = "NotFound"
    /\ accounts # <<>>
    /\ transactions # <<>>

(***************************************************************************)
(* C11.  The list query returns only records of the account, most recent   *)
(* first: the records that follow the first `offset` records of that       *)
(* order, at most `limit` of them; the count query gives the number of     *)
(* records stored for the account, whatever limit and offset are.          *)
(***************************************************************************)
\* The stored records of an account.
RecordsOf(account_id) ==
    {transactions[k] : k \in {j \in 1..Len(transactions) :
                                  transactions[j].account_id = account_id}}

Max(a, b) == IF a > b THEN a ELSE b

\* page is what a list query for (account_id, limit, offset) may return.
IsPage(page, account_id, limit, offset) ==
    LET n      == Cardinality(RecordsOf(account_id))
        inpage == {page[k] : k \in 1..Len(page)}
        others == RecordsOf(account_id) \ inpage
    IN  /\ inpage \subseteq RecordsOf(account_id)
        /\ \A j, k \in 1..Len(page) :
               j < k => /\ page[j].id # page[k].id
                        /\ page[j].timestamp >= page[k].timestamp
        /\ Len(page) = Min(limit, Max(n - offset, 0))
        /\ \E skipped \in SUBSET others :
               /\ Cardinality(skipped) = Min(offset, n)
               /\ \A s \in skipped, r \in RecordsOf(account_id) \ skipped :
                      s.timestamp >= r.timestamp
               /\ \A q \in inpage, r \in others \ skipped :
                      q.timestamp >= r.timestamp

C11_ListIsPageOfLedgerCountIsTotal ==
    /\ [](\A i \in AccountIds :
              get_transaction_count_by_account(i) = Cardinality(RecordsOf(i)))
    /\ [][\A p \in Procs :
              /\ (session[p].pc = "transactions_list" /\ session'[p] # session[p]) =>
                     /\ session'[p].pc = "transactions_count"
                     /\ IsPage(session'[p].page, session[p].account.id,
                               session[p].limit, session[p].offset)
                     /\ UNCHANGED <<accounts, transactions>>
              /\ (session[p].pc = "transactions_count" /\ session'[p] # session[p]) =>
                     /\ response' = "OK"
                     /\ UNCHANGED <<accounts, transactions>>
         ]_vars

\* A page that skips the most recent record of an account and stops before
\* its oldest one.
C11_Witness ==
    \E p \in Procs :
        /\ session[p].pc = "transactions_count"
        /\ session[p].offset = 1
        /\ Len(session[p].page) = 1
        /\ Cardinality(RecordsOf(session[p].account.id)) = MaxTransactions

(***************************************************************************)
(* C12.  The tool front-end performs the same validation as the HTTP       *)
(* front-end: in every store state and for every create_account, deposit,  *)
(* withdraw and get_transactions request, it rejects the request before    *)
(* calling the core exactly when the HTTP front-end does (the tool has no  *)
(* offset argument, so get_transactions is compared at offset 0).  The     *)
(* tool front-end does not check limit at all.                             *)
(***************************************************************************)
RejectedByValidation == {"InvalidInput", "InvalidAmount"}

C12_SameValidation ==
    /\ \A n \in RawNames, b \in Balances :
           (CreateAccountOutcome("mcp", n, b) \in RejectedByValidation) <=>
               (CreateAccountOutcome("http", n, b) \in RejectedByValidation)
    /\ \A i \in AccountIds, a \in Amounts :
           /\ (DepositOutcome("mcp", i, a) \in RejectedByValidation) <=>
                  (DepositOutcome("http", i, a) \in RejectedByValidation)
           /\ (WithdrawOutcome("mcp", i, a) \in RejectedByValidation) <=>
                  (WithdrawOutcome("http", i, a) \in RejectedByValidation)
    /\ \A i \in AccountIds, l \in Limits :
           (GetTransactionsOutcome("mcp", i, l, 0) \in RejectedByValidation) <=>
               (GetTransactionsOutcome("http", i, l, 0) \in RejectedByValidation)

(***************************************************************************)
(* C13.  Each mutating operation that records a transaction (create with   *)
(* positive initial balance, deposit, withdraw) commits its account write  *)
(* first and its transaction insert afterwards, as two separate steps: a   *)
(* state is reachable, and seen by another request, where the stored       *)
(* balance reflects the operation and its record does not exist yet; a     *)
(* record is never inserted before the account write of its request.       *)
(***************************************************************************)
BeforeAccountWrite == {"create_insert", "deposit_write", "withdraw_write"}

BeforeTransactionInsert ==
    {"create_transaction", "deposit_transaction", "withdraw_transaction"}

C13_AccountWriteBeforeTransactionInsert ==
    /\ [](\A p \in Procs :
              /\ session[p].pc \in BeforeAccountWrite => session[p].writes = 0
              /\ session[p].pc \in BeforeTransactionInsert =>
                     /\ session[p].writes = 1
                     /\ session[p].account.id \in AccountRows)
    /\ [][/\ transactions' # transactions =>
                 /\ accounts' = accounts
                 /\ \E p \in Procs :
                        /\ session[p].pc \in BeforeTransactionInsert
                        /\ session[p].writes = 1
                        /\ session'[p].pc = "idle"
                        /\ LastTransaction.account_id = session[p].account.id
          /\ \A p \in Procs :
                 (session[p].pc \in BeforeAccountWrite /\ session'[p] # session[p]) =>
                     /\ transactions' = transactions
                     /\ LET id == IF session[p].pc = "create_insert"
                                  THEN Len(accounts')
                                  ELSE session[p].account.id
                        IN  accounts'[id].balance =
                                CASE session[p].pc = "create_insert" ->
                                         session[p].initial_balance
                                  [] session[p].pc = "deposit_write" ->
                                         session[p].account.balance + session[p].amount
                                  [] session[p].pc = "withdraw_write" ->
                                         session[p].account.balance - session[p].amount
                     /\ session'[p].pc \in BeforeTransactionInsert \cup {"idle"}
                     /\ session'[p].pc = "idle" =>
                            /\ session[p].pc = "create_insert"
                            /\ session[p].initial_balance = 0
         ]_vars

\* A deposit has written the balance and not yet its record, and the other
\* front-end has loaded that balance for a request of its own.
C13_Witness ==
    \E p, q \in Procs :
        LET id == session[p].account.id
        IN  /\ p # q
            /\ session[p].pc = "deposit_transaction"
            /\ accounts[id].balance =
                   LedgerTotal(id, DEPOSIT) - LedgerTotal(id, WITHDRAWAL)
                       + session[p].amount
            /\ session[q].pc = "withdraw_write"
            /\ session[q].account.id = id
            /\ session[q].account.balance = accounts[id].balance
            /\ session[q].amount > LedgerTotal(id, DEPOSIT) - LedgerTotal(id, WITHDRAWAL)

(***************************************************************************)
(* C14.  The ledger is append-only: across every step of every exposed     *)
(* operation each transaction record that exists before the step exists    *)
(* after it with the same id, account_id, type, amount and timestamp, no   *)
(* account row is removed, and the set of records of an account only       *)
(* grows.                                                                  *)
(***************************************************************************)
C14_LedgerAppendOnly ==
    /\ [](\A k \in 1..Len(transactions) : transactions[k].id = k)
    /\ [][/\ Len(transactions') >= Len(transactions)
          /\ \A k \in 1..Len(transactions) :
                 /\ transactions'[k].id = transactions[k].id
                 /\ transactions'[k].account_id = transactions[k].account_id
                 /\ transactions'[k].type = transactions[k].type
                 /\ transactions'[k].amount = transactions[k].amount
                 /\ transactions'[k].timestamp = transactions[k].timestamp
          /\ Len(accounts') >= Len(accounts)
          /\ \A i \in AccountRows :
                 /\ accounts'[i].id = accounts[i].id
                 /\ accounts'[i].owner_name = accounts[i].owner_name
          /\ \A i \in AccountIds : RecordsOf(i) \subseteq RecordsOf(i)'
         ]_vars

\* A full ledger: both accounts have records, of both types.
C14_Witness ==
    /\ Quiescent
    /\ Len(accounts) = MaxAccounts
    /\ Len(transactions) = MaxTransactions
    /\ \A i \in AccountRows : RecordsOf(i) # {}
    /\ \E k \in 1..Len(transactions) : transactions[k].type = WITHDRAWAL

====
